---- MODULE Spec2Model ----
(***************************************************************************)
(* Model of backend/app.py: a Flask application that serves the built      *)
(* front-end from ./build, answers /health, and turns every 404 into the   *)
(* SPA entry document.                                                     *)
(*                                                                         *)
(* A URL path is the sequence of its segments: "/" is << >>, "/health" is  *)
(* <<"health">>, "/../app.py" is <<"..", "app.py">>; segments are not      *)
(* empty.  A filesystem node is                                            *)
(* the sequence of names from the filesystem root.  The bytes of a file    *)
(* are identified by the node that holds them, so two different files      *)
(* never have the same bytes.                                              *)
(***************************************************************************)
EXTENDS Integers, Sequences, FiniteSets, TLC

VARIABLES fs, environ, proc, static_folder, port, req

vars == <<fs, environ, proc, static_folder, port, req>>

(* ---------------------------- bounds ----------------------------------- *)

MaxSegs == 2

MaxInFlight == 2

(* ------------------------ program constants ---------------------------- *)

DefaultPort == 5001

(* ---------------------------- filesystem ------------------------------- *)

RootPath == <<"app">>

StaticRoot == <<"app", "build">>

IndexNode == <<"app", "build", "index.html">>

Nodes ==
  { RootPath, <<"app", "app.py">>, StaticRoot, IndexNode,
    <<"app", "build", "health">>, <<"app", "build", "assets">>,
    <<"app", "build", "assets", "main.js">> }

Kinds == {"absent", "file", "dir"}

Parent(n) == IF n = << >> THEN << >> ELSE SubSeq(n, 1, Len(n) - 1)

FileSystems ==
  { f \in [Nodes -> Kinds] :
      /\ f[RootPath] = "dir"
      /\ f[<<"app", "app.py">>] = "file"
      /\ f[StaticRoot] \in {"absent", "dir"}
      /\ f[<<"app", "build", "health">>] \in {"absent", "file"}
      /\ f[<<"app", "build", "assets">>] \in {"absent", "dir"}
      /\ f[<<"app", "build", "assets", "main.js">>] \in {"absent", "file"}
      /\ \A n \in Nodes : (f[n] # "absent" /\ Len(n) > 1) => f[Parent(n)] = "dir" }

(* What the operating system finds at a path: ".." is followed through   *)
(* the directories that exist, as os.path.isfile and os.path.exists do.   *)
KindAt(fsys, n) ==
  IF n = << >> THEN "dir"
  ELSE IF n \in DOMAIN fsys THEN fsys[n] ELSE "absent"

RECURSIVE Walk(_, _, _, _)
Walk(fsys, segs, i, cur) ==
  IF i > Len(segs) THEN [node |-> cur, kind |-> KindAt(fsys, cur)]
  ELSE IF KindAt(fsys, cur) # "dir" THEN [node |-> cur, kind |-> "absent"]
  ELSE IF segs[i] = ".." THEN Walk(fsys, segs, i + 1, Parent(cur))
  ELSE Walk(fsys, segs, i + 1, Append(cur, segs[i]))

Stat(fsys, p) == Walk(fsys, p, 1, << >>)

isfile(fsys, p) == Stat(fsys, p).kind = "file"

exists(fsys, p) == Stat(fsys, p).kind # "absent"

(* ------------------------------ paths ---------------------------------- *)

Segs == {"index.html", "health", "assets", "main.js", "..", "app.py"}

RECURSIVE SeqsUpTo(_, _)
SeqsUpTo(S, n) ==
  IF n = 0 THEN {<< >>}
  ELSE LET shorter == SeqsUpTo(S, n - 1)
       IN shorter \cup {Append(q, x) : q \in {r \in shorter : Len(r) = n - 1}, x \in S}

Paths == SeqsUpTo(Segs, MaxSegs)

ConcPaths ==
  { << >>, <<"health">>, <<"index.html">>, <<"assets">>,
    <<"assets", "main.js">>, <<"..", "app.py">> }

(* posixpath.normpath on a relative path: "name/.." cancels, a leading   *)
(* ".." stays.                                                           *)
RECURSIVE NormFrom(_, _, _)
NormFrom(segs, i, acc) ==
  IF i > Len(segs) THEN acc
  ELSE IF segs[i] = ".." /\ acc # << >> /\ acc[Len(acc)] # ".."
       THEN NormFrom(segs, i + 1, SubSeq(acc, 1, Len(acc) - 1))
       ELSE NormFrom(segs, i + 1, Append(acc, segs[i]))

normpath(p) == NormFrom(p, 1, << >>)

join(directory, p) == directory \o p

(* --------------------------- responses --------------------------------- *)

Ok(status, body) == [exc |-> "", status |-> status, body |-> body]

Raise(name) == [exc |-> name, status |-> 0, body |-> << >>]

FileBytes(node) == <<"bytes">> \o node

HealthBody == <<"json", "status", "ok">>

NotFoundBody == <<"json", "error", "not found">>

ServerErrorBody == <<"html", "Internal Server Error">>

NoPath == [ok |-> FALSE, path |-> << >>]

safe_joinUnchecked(directory, filename) ==
  [ok |-> TRUE, path |-> join(directory, filename)]

(* werkzeug safe_join: the normalised filename must not start with "..". *)
safe_join(directory, filename) ==
  LET n == normpath(filename)
  IN IF n # << >> /\ n[1] = ".." THEN NoPath
     ELSE [ok |-> TRUE, path |-> join(directory, n)]

(* send_from_directory: NotFound unless the joined path is a regular     *)
(* file; otherwise a 200 response with the file's bytes.                 *)
send_from_directory(fsys, directory, filename) ==
  LET j == safe_join(directory, filename)
  IN IF ~j.ok THEN Raise("NotFound")
     ELSE IF ~isfile(fsys, j.path) THEN Raise("NotFound")
     ELSE Ok(200, FileBytes(Stat(fsys, j.path).node))

(* ----------------------------- routing --------------------------------- *)

MatchRuleDynamicFirst(p) ==
  IF p = << >> THEN "index" ELSE "static"

(* The URL map: "/" and "/health" are static rules and win over the      *)
(* "/<path:filename>" rule that static_url_path="/" installs.             *)
MatchRule(p) ==
  IF p = << >> THEN "index"
  ELSE IF p = <<"health">> THEN "health"
  ELSE "static"

(* ------------------------------ state ---------------------------------- *)

Slots == 1 .. MaxInFlight

Idle == [pc |-> "idle", path |-> << >>, exc |-> "", status |-> 0,
         body |-> << >>, fallback |-> FALSE]

Init ==
  /\ fs \in FileSystems
  /\ environ \in {"unset", "8080", "abc"}
  /\ proc = "import"
  /\ static_folder = << >>
  /\ port = 0
  /\ req = [s \in Slots |-> Idle]

Finish(s, r, viaHandler) ==
  req' = [req EXCEPT ![s] =
            [pc |-> "done", path |-> req[s].path, exc |-> "",
             status |-> r.status, body |-> r.body, fallback |-> viaHandler]]

Fail(s, r, pc, viaHandler) ==
  req' = [req EXCEPT ![s] =
            [pc |-> pc, path |-> req[s].path, exc |-> r.exc,
             status |-> 0, body |-> << >>, fallback |-> viaHandler]]

(* ---------------------------- process ---------------------------------- *)

CreateApp ==
  /\ proc = "import"
  /\ static_folder' = join(RootPath, <<"build">>)
  /\ proc' = "main"
  /\ UNCHANGED <<fs, environ, port, req>>

(* int(): the value of a decimal string, -1 standing for ValueError.       *)
int(v) ==
  CASE v = "8080" -> 8080
    [] v = "80" -> 80
    [] OTHER -> -1

(* The module body under __main__: an unparsable PORT ends the process     *)
(* with a traceback; otherwise app.run binds and serves, whatever the      *)
(* asset root holds.                                                       *)
Main ==
  /\ proc = "main"
  /\ LET p == IF environ = "unset" THEN DefaultPort ELSE int(environ)
     IN IF p < 0
        THEN proc' = "exited" /\ port' = port
        ELSE proc' = "serving" /\ port' = p
  /\ UNCHANGED <<fs, environ, static_folder, req>>

(* ---------------------------- requests --------------------------------- *)

Receive(s, p) ==
  /\ proc = "serving"
  /\ req[s].pc \in {"idle", "done"}
  /\ req' = [req EXCEPT ![s] =
               [pc |-> "dispatch", path |-> p, exc |-> "", status |-> 0,
                body |-> << >>, fallback |-> FALSE]]
  /\ UNCHANGED <<fs, environ, proc, static_folder, port>>

Routed(s, endpoint) ==
  /\ req[s].pc = "dispatch"
  /\ MatchRule(req[s].path) = endpoint

Return(s, r) ==
  IF r.exc = "" THEN Finish(s, r, FALSE) ELSE Fail(s, r, "error404", FALSE)

indexMovesRoot(s) ==
  /\ Routed(s, "index")
  /\ Return(s, send_from_directory(fs, static_folder, <<"index.html">>))
  /\ static_folder' = RootPath
  /\ UNCHANGED <<fs, environ, proc, port>>

indexNoRaise(s) ==
  /\ Routed(s, "index")
  /\ LET r == send_from_directory(fs, static_folder, <<"index.html">>)
     IN Return(s, IF r.exc = "" THEN r ELSE Ok(200, << >>))
  /\ UNCHANGED <<fs, environ, proc, static_folder, port>>

index(s) ==
  /\ Routed(s, "index")
  /\ Return(s, send_from_directory(fs, static_folder, <<"index.html">>))
  /\ UNCHANGED <<fs, environ, proc, static_folder, port>>

health(s) ==
  /\ Routed(s, "health")
  /\ Return(s, Ok(200, HealthBody))
  /\ UNCHANGED <<fs, environ, proc, static_folder, port>>

send_static_fileShared(s) ==
  /\ Routed(s, "static")
  /\ Return(s, send_from_directory(fs, static_folder, req[1].path))
  /\ UNCHANGED <<fs, environ, proc, static_folder, port>>

send_static_fileBasename(s) ==
  /\ Routed(s, "static")
  /\ Return(s, send_from_directory(fs, static_folder,
                                   <<req[s].path[Len(req[s].path)]>>))
  /\ UNCHANGED <<fs, environ, proc, static_folder, port>>

send_static_file(s) ==
  /\ Routed(s, "static")
  /\ Return(s, send_from_directory(fs, static_folder, req[s].path))
  /\ UNCHANGED <<fs, environ, proc, static_folder, port>>

FallbackResultKeeps404(fsys, folder) ==
  LET index_path == join(folder, <<"index.html">>)
      r == send_from_directory(fsys, folder, <<"index.html">>)
  IN IF exists(fsys, index_path)
     THEN (IF r.exc = "" THEN Ok(404, r.body) ELSE r)
     ELSE Ok(404, NotFoundBody)

FallbackResultDrops404(fsys, folder) ==
  LET index_path == join(folder, <<"index.html">>)
  IN IF exists(fsys, index_path)
     THEN send_from_directory(fsys, folder, <<"index.html">>)
     ELSE Ok(200, NotFoundBody)

FallbackResult(fsys, folder) ==
  LET index_path == join(folder, <<"index.html">>)
  IN IF exists(fsys, index_path)
     THEN send_from_directory(fsys, folder, <<"index.html">>)
     ELSE Ok(404, NotFoundBody)

(* The 404 handler; its return value is the response as it stands, and   *)
(* an exception leaving it is no longer handled as a 404.                 *)
spa_fallback(s) ==
  /\ req[s].pc = "error404"
  /\ LET r == FallbackResult(fs, static_folder)
     IN IF r.exc = "" THEN Finish(s, r, TRUE) ELSE Fail(s, r, "error500", TRUE)
  /\ UNCHANGED <<fs, environ, proc, static_folder, port>>

(* An exception that escapes an error handler ends the request with 500. *)
handle_exception(s) ==
  /\ req[s].pc = "error500"
  /\ Finish(s, Ok(500, ServerErrorBody), TRUE)
  /\ UNCHANGED <<fs, environ, proc, static_folder, port>>

Handle(s) ==
  \/ index(s)
  \/ health(s)
  \/ send_static_file(s)
  \/ spa_fallback(s)
  \/ handle_exception(s)

Next ==
  \/ CreateApp
  \/ Main
  \/ \E p \in Paths : Receive(1, p)
  \/ Handle(1)

Spec == Init /\ [][Next]_vars

NextConc ==
  \/ CreateApp
  \/ Main
  \/ \E s \in Slots, p \in ConcPaths : Receive(s, p)
  \/ \E s \in Slots : Handle(s)

ConcSpec == Init /\ [][NextConc]_vars

(* ------------------------ vocabulary of the claims --------------------- *)

Done(s) == req[s].pc = "done"

InFlight(s) == req[s].pc \in {"dispatch", "error404", "error500"}

Special(p) == p \in {<< >>, <<"health">>}

Ups(p, k) == Cardinality({i \in 1 .. k : p[i] = ".."})

(* p climbs above the directory it is relative to: some prefix of p holds  *)
(* more ".." segments than names.                                          *)
Escapes(p) == \E k \in 1 .. Len(p) : 2 * Ups(p, k) > k

(* p names an existing regular file under the asset root.                  *)
Resolves(p) ==
  /\ ~Escapes(p)
  /\ normpath(p) # << >>
  /\ KindAt(fs, StaticRoot \o normpath(p)) = "file"

UnderRoot(node) ==
  /\ Len(node) > Len(StaticRoot)
  /\ SubSeq(node, 1, Len(StaticRoot)) = StaticRoot

IsBytes(body) == body # << >> /\ body[1] = "bytes"

IndexIsFile == fs[IndexNode] = "file"

IndexAbsent == fs[IndexNode] = "absent"

RootAbsent == fs[StaticRoot] = "absent"

(* The answer the application gives to a GET of p when no other request is *)
(* in flight: route, view, then the 404 handler, then the 500 of an        *)
(* exception that leaves the handler.                                      *)
Alone(p) ==
  LET first == CASE MatchRule(p) = "index" ->
                      send_from_directory(fs, StaticRoot, <<"index.html">>)
                 [] MatchRule(p) = "health" -> Ok(200, HealthBody)
                 [] OTHER -> send_from_directory(fs, StaticRoot, p)
      second == IF first.exc = "" THEN first ELSE FallbackResult(fs, StaticRoot)
      last == IF second.exc = "" THEN second ELSE Ok(500, ServerErrorBody)
  IN <<last.status, last.body>>

(* ------------------------------ claims --------------------------------- *)

(* C1: a GET whose path, other than / and /health, names an existing       *)
(* regular file under the asset root is answered with status 200 and that  *)
(* file's bytes, and the 404 handler takes no part in it.                  *)
C1_StaticFileServed ==
  \A s \in Slots :
    (Done(s) /\ ~Special(req[s].path) /\ Resolves(req[s].path)) =>
      /\ req[s].status = 200
      /\ req[s].body = FileBytes(StaticRoot \o normpath(req[s].path))
      /\ ~req[s].fallback

C1_Witness ==
  \E s \in Slots :
    /\ Done(s) /\ Resolves(req[s].path)
    /\ Len(req[s].path) = 2
    /\ req[s].status = 200

(* C2 as stated: a GET whose path names no file under the asset root, with *)
(* index.html present as a regular file, is answered with the bytes of     *)
(* index.html and status 404.                                              *)
C2_FallbackStatus404 ==
  \A s \in Slots :
    (Done(s) /\ ~Special(req[s].path) /\ ~Resolves(req[s].path) /\ IndexIsFile) =>
      /\ req[s].body = FileBytes(IndexNode)
      /\ req[s].status = 404

(* C2 amended: a GET whose path names no file under the asset root, with   *)
(* index.html present as a regular file, is answered by the 404 handler    *)
(* with the bytes of index.html and status 200.                            *)
C2_FallbackStatus200 ==
  \A s \in Slots :
    (Done(s) /\ ~Special(req[s].path) /\ ~Resolves(req[s].path) /\ IndexIsFile) =>
      /\ req[s].body = FileBytes(IndexNode)
      /\ req[s].status = 200
      /\ req[s].fallback

C2_Witness ==
  \E s \in Slots :
    /\ Done(s) /\ ~Special(req[s].path) /\ ~Resolves(req[s].path)
    /\ ~Escapes(req[s].path)
    /\ IndexIsFile
    /\ req[s].fallback

(* C3: no response carries the bytes of a file outside the asset root, and *)
(* a path that climbs above the root is answered by the 404 handler.       *)
C3_NoEscape ==
  \A s \in Slots :
    Done(s) =>
      /\ IsBytes(req[s].body) => UnderRoot(Tail(req[s].body))
      /\ Escapes(req[s].path) => req[s].fallback

C3_Witness ==
  \E s \in Slots :
    /\ Done(s) /\ Escapes(req[s].path)
    /\ Stat(fs, StaticRoot \o req[s].path).kind = "file"
    /\ ~UnderRoot(Stat(fs, StaticRoot \o req[s].path).node)
    /\ req[s].fallback

(* C4: a GET whose path names no file under the asset root, with           *)
(* index.html absent, is answered with {"error": "not found"} and 404.     *)
C4_JsonNotFound ==
  \A s \in Slots :
    (Done(s) /\ ~Special(req[s].path) /\ ~Resolves(req[s].path) /\ IndexAbsent) =>
      /\ req[s].status = 404
      /\ req[s].body = NotFoundBody

C4_Witness ==
  \E s \in Slots :
    /\ Done(s) /\ ~Special(req[s].path) /\ ~Resolves(req[s].path)
    /\ IndexAbsent /\ ~RootAbsent
    /\ req[s].body = NotFoundBody

(* C5: GET /health is answered with {"status": "ok"} and 200 whatever the  *)
(* asset root holds, a file named health included.                         *)
C5_HealthAlwaysOk ==
  \A s \in Slots :
    (Done(s) /\ req[s].path = <<"health">>) =>
      /\ req[s].status = 200
      /\ req[s].body = HealthBody
      /\ ~req[s].fallback

C5_Witness ==
  \E s \in Slots :
    /\ Done(s) /\ req[s].path = <<"health">>
    /\ fs[<<"app", "build", "health">>] = "file"
    /\ IndexAbsent

(* C6: GET / with index.html absent is answered with status 404, by the    *)
(* 404 handler.                                                            *)
C6_RootWithoutIndex ==
  \A s \in Slots :
    (Done(s) /\ req[s].path = << >> /\ IndexAbsent) =>
      /\ req[s].status = 404
      /\ req[s].fallback

C6_Witness ==
  \E s \in Slots :
    /\ Done(s) /\ req[s].path = << >> /\ IndexAbsent
    /\ req[s].body = NotFoundBody

SameAnswers ==
  \A s, t \in Slots :
    (Done(s) /\ Done(t) /\ req[s].path = req[t].path) =>
      /\ req[s].status = req[t].status
      /\ req[s].body = req[t].body

(* C7: once the server is serving, no step changes the filesystem or the   *)
(* application's configuration, and two answers to the same path, however  *)
(* many requests were handled between them, have the same status and body. *)
C7_Idempotent ==
  [][ /\ proc = "serving" =>
           UNCHANGED <<fs, environ, proc, static_folder, port>>
      /\ SameAnswers' ]_vars

C7_Witness ==
  \E s, t \in Slots :
    /\ s # t /\ Done(s) /\ Done(t)
    /\ req[s].path = req[t].path
    /\ req[s].fallback

(* C8 as stated: with the asset root directory absent the process never    *)
(* reaches the state in which it serves requests.                          *)
C8_FailFast == RootAbsent => proc # "serving"

(* C9 as stated: every answered request has status 200 or 404.             *)
C9_Only200Or404 ==
  \A s \in Slots : Done(s) => req[s].status \in {200, 404}

(* C10: whatever other requests are in flight, a request is answered with  *)
(* the status and body it gets when handled alone.                         *)
C10_Independent ==
  \A s \in Slots : Done(s) => <<req[s].status, req[s].body>> = Alone(req[s].path)

C10_Witness ==
  \E s, t \in Slots :
    /\ s # t /\ Done(s)
    /\ req[t].pc = "error404"
    /\ req[s].path # req[t].path
    /\ req[s].fallback

====
